---- MODULE Spec2Model ----
(***************************************************************************)
(* detect-ec2: the detector of src/src/detect.js as a state machine.       *)
(*                                                                         *)
(* One step of the detector runs from one `await` to the next (JavaScript  *)
(* runs to completion between suspension points).  Between two detector    *)
(* steps the HTTP client delivers the events makeRequest listens to        *)
(* (response, 'data', 'end', 'error', 'timeout'), and the one it does not  *)
(* listen to (the connection closing after the response started).          *)
(*                                                                         *)
(* The timeout value itself (options.timeout || 1000) only decides WHEN    *)
(* the 'timeout' event fires; it is the Timeout event here.                *)
(***************************************************************************)
EXTENDS Naturals, Sequences, FiniteSets, TLC

VARIABLES
    pc,        \* where the running call is suspended ("idle" before any call)
    entry,     \* which exported function the caller invoked
    options,   \* detectEC2: the options object the caller passed
    verbose,   \* detectEC2: options.verbose || false
    net,       \* the promises of makeRequest that have not been consumed yet
    headers,   \* getMetadata: the headers object of the field requests
    metadata,  \* getMetadata: the metadata object being filled
    fieldIdx,  \* getMetadata: position of the for..of loop over fields
    result,    \* detectEC2: the result object, once built / returned
    mdResult,  \* what getMetadata returned
    raised,    \* TRUE when an error reached the caller of the entry point
    log,       \* history: every request issued by the running call, in order
    flags,     \* bin/cli.js: the parsed command line
    exitCode,  \* bin/cli.js: the code the process exited with (pc = "exited")
    envOptions, \* setEnv: the options object the caller passed
    env,       \* process.env
    written,   \* history: the assignments to process.env of the running setEnv
    exports    \* bin/cli.js: the text generateExports returned

\* what the detector itself never touches: the command line tool and setEnv
appVars == <<flags, exitCode, envOptions, env, written, exports>>

vars == <<pc, entry, options, verbose, net, headers, metadata, fieldIdx, result,
          mdResult, raised, log, flags, exitCode, envOptions, env, written,
          exports>>

(***************************************************************************)
(* Bounds of the model.                                                    *)
(***************************************************************************)
MaxChunks == 2      \* 'data' events per response

Chunk == "a"                      \* the text one 'data' event carries
Statuses == {200, 404}            \* status codes the service answers with

(***************************************************************************)
(* JavaScript values.                                                      *)
(***************************************************************************)
Null == [type |-> "null"]
Obj(m) == [type |-> "object", entries |-> m]
NoResult == [type |-> "undefined"]
EmptyObject == [k \in {} |-> ""]

Truthy(s) == s # ""               \* truthiness of a string

Last(s) == s[Len(s)]

(***************************************************************************)
(* Program constants.                                                      *)
(***************************************************************************)
TokenPath == "/latest/api/token"
RootPath == "/latest/meta-data/"
TtlHeaders == ("X-aws-ec2-metadata-token-ttl-seconds" :> "21600")
TokenHeaders(token) == ("X-aws-ec2-metadata-token" :> token)
\* a variant of the field list with a sixth field
fieldsAndMac == <<"instance-id", "instance-type", "ami-id", "local-ipv4",
                  "public-ipv4", "mac">>
fields == <<"instance-id", "instance-type", "ami-id", "local-ipv4", "public-ipv4">>
FieldPath(field) == RootPath \o field

(***************************************************************************)
(* makeRequest: the promise and the request behind it.                     *)
(*   state: "inflight"   request sent, no response yet                     *)
(*          "responding" response callback ran, body being accumulated     *)
(*          "resolved"   promise resolved with {status, body}              *)
(*          "rejected"   promise rejected                                  *)
(*          "closed"     connection closed after the response started,     *)
(*                       before 'end': no listener, promise still pending  *)
(*   sent: what the service has written so far (history, not program state)*)
(*   id:   position of the request in log (history)                        *)
(***************************************************************************)
makeRequest(id, path, hdrs, method) ==
    [id |-> id, method |-> method, path |-> path, headers |-> hdrs,
     state |-> "inflight", status |-> 0, body |-> "", sent |-> "",
     destroyed |-> FALSE, cause |-> "none"]

InFlight(r) == r.state \in {"inflight", "responding"}
Settled(r) == r.state \in {"resolved", "rejected"}

\* res.on('data', chunk => body += chunk)
OnData(body, chunk) == body \o chunk

\* the response callback: let body = ''
OnResponse(r, status) ==
    [r EXCEPT !.state = "responding", !.status = status, !.body = ""]

\* res.on('end', () => resolve({status, body}))
OnEnd(r) == [r EXCEPT !.state = "resolved"]

\* req.on('error', reject)
OnError(r) == [r EXCEPT !.state = "rejected", !.cause = "error"]

\* a variant of the timeout handler that only rejects
OnTimeoutAbandon(r) == [r EXCEPT !.state = "rejected", !.cause = "timeout"]

\* req.on('timeout', () => { req.destroy(); reject(...) })
OnTimeout(r) ==
    [r EXCEPT !.destroyed = TRUE, !.state = "rejected", !.cause = "timeout"]

\* no 'close' / 'aborted' / res 'error' listener: nothing settles the promise
OnClose(r) == [r EXCEPT !.state = "closed"]

(***************************************************************************)
(* History: log[i] is the i-th request of the running call and, once the   *)
(* HTTP client is through with it, what became of it:                      *)
(*   "200":    a complete response with status 200,                        *)
(*   "failed": a complete response with another status, an 'error' or a    *)
(*             'timeout' (the detector tells none of these apart),         *)
(*   "closed": the connection closed before the response ended.            *)
(* body is what the service wrote, kept for the responses with status 200  *)
(* whose body the detector reads (the token and the fields; nothing reads  *)
(* the listing that RootPath returns).                                     *)
(***************************************************************************)
LogEntry(r) ==
    [method |-> r.method, path |-> r.path, headers |-> r.headers,
     outcome |-> "pending", body |-> ""]

Outcome(r) ==
    CASE r.state = "resolved" /\ r.status = 200 -> "200"
      [] r.state = "resolved" /\ r.status # 200 -> "failed"
      [] r.state = "rejected" -> "failed"
      [] r.state = "closed" -> "closed"
      [] OTHER -> "pending"

Record(r) ==
    [log EXCEPT ![r.id].outcome = Outcome(r),
                ![r.id].body = IF Outcome(r) = "200" /\ r.path # RootPath
                               THEN r.sent ELSE ""]

(***************************************************************************)
(* Events of the HTTP client on request i.                                 *)
(***************************************************************************)
Deliver(i, r) ==
    /\ net' = [net EXCEPT ![i] = r]
    /\ log' = Record(r)
    /\ UNCHANGED <<pc, entry, options, verbose, headers, metadata, fieldIdx, result,
                   mdResult, raised>>
    /\ UNCHANGED appVars

Response(i) ==
    /\ net[i].state = "inflight"
    /\ \E status \in Statuses : Deliver(i, OnResponse(net[i], status))

Data(i) ==
    /\ net[i].state = "responding"
    /\ Len(net[i].sent) < MaxChunks
    /\ Deliver(i, [net[i] EXCEPT !.body = OnData(net[i].body, Chunk),
                                 !.sent = net[i].sent \o Chunk])

End(i) ==
    /\ net[i].state = "responding"
    /\ Deliver(i, OnEnd(net[i]))

Error(i) ==
    /\ InFlight(net[i])
    /\ Deliver(i, OnError(net[i]))

Timeout(i) ==
    /\ InFlight(net[i])
    /\ Deliver(i, OnTimeout(net[i]))

Close(i) ==
    /\ net[i].state = "responding"
    /\ Deliver(i, OnClose(net[i]))

(***************************************************************************)
(* Completions of the async functions: a value, or a thrown error.         *)
(***************************************************************************)
Return(v) == [kind |-> "return", value |-> v]
Throw == [kind |-> "throw"]

\* a variant that does not wait for the promise
AwaitedAtOnce(r) == TRUE

\* `await p` continues once p is settled, and throws if p was rejected
Awaited(r) == Settled(r)
Rejected(r) == r.state = "rejected"

\* a variant of the token check without `|| !tokenRes.body`
tokenUsableAnyBody(r) == ~Rejected(r) /\ r.status = 200

\* tryIMDSv2, up to the token check: TRUE when the token GET is to be issued
tokenUsable(r) == ~Rejected(r) /\ r.status = 200 /\ Truthy(r.body)

\* a variant that also wants a body in the listing response
tryIMDSv2NeedsBody(r) ==
    IF Rejected(r) THEN Return(FALSE)
    ELSE Return(r.status = 200 /\ Truthy(r.body))

\* tryIMDSv2, after the tokened GET
tryIMDSv2(r) ==
    IF Rejected(r) THEN Return(FALSE) ELSE Return(r.status = 200)

\* tryIMDSv2 when the token request did not give a usable token
tryIMDSv2NoToken(r) == Return(FALSE)

\* a variant without the try/catch: the rejection reaches the caller
tryIMDSv1NoCatch(r) ==
    IF Rejected(r) THEN Throw ELSE Return(r.status = 200)

\* tryIMDSv1, after the plain GET
tryIMDSv1(r) ==
    IF Rejected(r) THEN Return(FALSE) ELSE Return(r.status = 200)

\* a variant that takes the body of any response as the token
metadataHeadersAnyStatus(r) ==
    LET token == IF ~Rejected(r) THEN r.body ELSE ""
    IN  IF Truthy(token) THEN TokenHeaders(token) ELSE EmptyObject

\* a variant that reuses the token of the negotiation when there is one
metadataHeadersReused(r) ==
    IF log[1].path = TokenPath /\ log[1].outcome = "200" /\ Truthy(log[1].body)
    THEN TokenHeaders(log[1].body)
    ELSE IF ~Rejected(r) /\ r.status = 200 /\ Truthy(r.body)
         THEN TokenHeaders(r.body) ELSE EmptyObject

\* getMetadata: token and headers, after the token request
metadataHeaders(r) ==
    LET token == IF ~Rejected(r) /\ r.status = 200 THEN r.body ELSE ""
    IN  IF Truthy(token) THEN TokenHeaders(token) ELSE EmptyObject

\* a variant that skips fields whose body is empty
storeFieldTruthy(md, field, r) ==
    IF ~Rejected(r) /\ r.status = 200 /\ Truthy(r.body)
    THEN [f \in DOMAIN md \cup {field} |-> IF f = field THEN r.body ELSE md[f]]
    ELSE md

\* a variant that starts the object again when a field fails
storeFieldOrReset(md, field, r) ==
    IF ~Rejected(r) /\ r.status = 200
    THEN [f \in DOMAIN md \cup {field} |-> IF f = field THEN r.body ELSE md[f]]
    ELSE EmptyObject

\* getMetadata: the body of the loop, after the field request
storeField(md, field, r) ==
    IF ~Rejected(r) /\ r.status = 200
    THEN [f \in DOMAIN md \cup {field} |-> IF f = field THEN r.body ELSE md[f]]
    ELSE md

\* getMetadata: return Object.keys(metadata).length > 0 ? metadata : null
getMetadataReturn(md) ==
    Return(IF Cardinality(DOMAIN md) > 0 THEN Obj(md) ELSE Null)

\* variants of the result objects: the v1 branch pasted from the v2 branch,
\* and a negative result that carries an empty metadata key
resultV1Pasted == [isEC2 |-> TRUE, imdsVersion |-> "v2"]
resultNotEC2Padded == [isEC2 |-> FALSE, metadata |-> Null]
\* a negative result that still names a protocol
resultNotEC2Versioned == [isEC2 |-> FALSE, imdsVersion |-> "v1"]

\* detectEC2: the result objects
resultV2 == [isEC2 |-> TRUE, imdsVersion |-> "v2"]
resultV1 == [isEC2 |-> TRUE, imdsVersion |-> "v1"]
resultNotEC2 == [isEC2 |-> FALSE]

\* truthiness of result.metadata: an object, not null and not missing
HasMetadataObject(res) ==
    "metadata" \in DOMAIN res /\ res.metadata.type = "object"

\* detectEC2: result.metadata = await getMetadata(timeout)
setMetadata(res, m) ==
    [isEC2 |-> res.isEC2, imdsVersion |-> res.imdsVersion, metadata |-> m]

(***************************************************************************)
(* The detector.  Each action is the code between two awaits.              *)
(***************************************************************************)
Unconsumed(r) == ~Settled(r)

\* makeRequest(...) called: a new promise, req.end() sends the request
Send(oldNet, oldLog, path, hdrs, method) ==
    LET r == makeRequest(Len(oldLog) + 1, path, hdrs, method)
    IN  /\ net' = Append(SelectSeq(oldNet, Unconsumed), r)
        /\ log' = Append(oldLog, LogEntry(r))

\* the entry point completes: returns to, or throws at, its caller
Finish(res, md, err) ==
    /\ pc' = "done"
    /\ result' = res
    /\ mdResult' = md
    /\ raised' = err
    /\ net' = SelectSeq(net, Unconsumed)
    /\ UNCHANGED <<entry, options, verbose, headers, fieldIdx, log>>
    /\ UNCHANGED appVars

\* getMetadata(timeout) called: the token request (lines 97-107)
EnterGetMetadata(res) ==
    /\ pc' = "md_token"
    /\ result' = res
    /\ Send(net, log, TokenPath, TtlHeaders, "PUT")
    /\ UNCHANGED <<entry, options, verbose, headers, fieldIdx, mdResult, raised>>
    /\ UNCHANGED appVars

\* detectEC2 after `await tryIMDSv1(timeout)` (lines 169-177)
AfterV1(out) ==
    /\ UNCHANGED metadata
    /\ IF out.kind = "throw" THEN Finish(NoResult, NoResult, TRUE)
       ELSE IF out.value
            THEN IF verbose THEN EnterGetMetadata(resultV1)
                            ELSE Finish(resultV1, NoResult, FALSE)
            ELSE Finish(resultNotEC2, NoResult, FALSE)

\* a variant that tries IMDSv1 whatever tryIMDSv2 returned
AfterV2AlwaysV1(out) ==
    /\ pc' = "v1_get"
    /\ Send(net, log, RootPath, EmptyObject, "GET")
    /\ UNCHANGED <<entry, options, verbose, headers, metadata, fieldIdx, result,
                   mdResult, raised>>
    /\ UNCHANGED appVars

\* detectEC2 after `await tryIMDSv2(timeout)` (lines 160-169)
AfterV2(out) ==
    /\ UNCHANGED metadata
    /\ IF out.kind = "throw" THEN Finish(NoResult, NoResult, TRUE)
       ELSE IF out.value
            THEN IF verbose THEN EnterGetMetadata(resultV2)
                            ELSE Finish(resultV2, NoResult, FALSE)
            ELSE /\ pc' = "v1_get"
                 /\ Send(net, log, RootPath, EmptyObject, "GET")
                 /\ UNCHANGED <<entry, options, verbose, headers, fieldIdx, result,
                                mdResult, raised>>
                 /\ UNCHANGED appVars

\* after `await getMetadata(timeout)`: detectEC2 lines 163-165 / 172-174,
\* or the caller of getMetadata itself
AfterGetMetadata(out) ==
    IF out.kind = "throw" THEN Finish(NoResult, NoResult, TRUE)
    ELSE IF entry # "getMetadata"
         THEN Finish(setMetadata(result, out.value), NoResult, FALSE)
         ELSE Finish(NoResult, out.value, FALSE)

\* a variant that remembers the verbose of the call before
verboseOptionSticky(opts) ==
    verbose \/ (IF "verbose" \in DOMAIN opts THEN opts["verbose"] ELSE FALSE)

\* a variant with the default turned around: options.verbose || true
verboseOptionOn(opts) == TRUE

\* const verbose = options.verbose || false
verboseOption(opts) ==
    IF "verbose" \in DOMAIN opts THEN opts["verbose"] ELSE FALSE

\* the option objects a caller passes: {}, {verbose: false}, {verbose: true}
Options == {EmptyObject, ("verbose" :> FALSE), ("verbose" :> TRUE)}

\* the caller calls again only after the previous call completed
CanCall == pc \in {"idle", "done"}

\* the body of detectEC2(options) up to the first await, in tryIMDSv2
enterDetectEC2(opts) ==
    /\ pc' = "v2_token"
    /\ options' = opts
    /\ verbose' = verboseOption(opts)
    /\ Send(<<>>, <<>>, TokenPath, TtlHeaders, "PUT")
    /\ headers' = EmptyObject
    /\ metadata' = EmptyObject
    /\ fieldIdx' = 0
    /\ result' = NoResult
    /\ mdResult' = NoResult
    /\ raised' = FALSE

\* detectEC2(options) called by a user of the module
detectEC2(opts) ==
    /\ CanCall
    /\ entry' = "detectEC2"
    /\ enterDetectEC2(opts)
    /\ UNCHANGED appVars

\* getMetadata(timeout) called directly
getMetadata ==
    /\ CanCall
    /\ pc' = "md_token"
    /\ entry' = "getMetadata"
    /\ options' = EmptyObject
    /\ verbose' = FALSE
    /\ Send(<<>>, <<>>, TokenPath, TtlHeaders, "PUT")
    /\ headers' = EmptyObject
    /\ metadata' = EmptyObject
    /\ fieldIdx' = 0
    /\ result' = NoResult
    /\ mdResult' = NoResult
    /\ raised' = FALSE
    /\ UNCHANGED appVars

\* tryIMDSv2 resumes with the token response
V2TokenDone ==
    /\ pc = "v2_token"
    /\ Awaited(Last(net))
    /\ LET r == Last(net)
       IN  IF tokenUsable(r)
           THEN /\ pc' = "v2_get"
                /\ Send(net, log, RootPath, TokenHeaders(r.body), "GET")
                /\ UNCHANGED <<entry, options, verbose, headers, metadata, fieldIdx,
                               result, mdResult, raised>>
                /\ UNCHANGED appVars
           ELSE AfterV2(tryIMDSv2NoToken(r))

\* tryIMDSv2 resumes with the response to the tokened GET
V2GetDone ==
    /\ pc = "v2_get"
    /\ Awaited(Last(net))
    /\ AfterV2(tryIMDSv2(Last(net)))

\* tryIMDSv1 resumes with the response to the plain GET
V1GetDone ==
    /\ pc = "v1_get"
    /\ Awaited(Last(net))
    /\ AfterV1(tryIMDSv1(Last(net)))

moreFields(idx) == idx < Len(fields)

\* getMetadata resumes with the token response: headers, first field request
MdTokenDone ==
    /\ pc = "md_token"
    /\ Awaited(Last(net))
    /\ pc' = "md_field"
    /\ headers' = metadataHeaders(Last(net))
    /\ metadata' = EmptyObject
    /\ fieldIdx' = 1
    /\ Send(net, log, FieldPath(fields[1]), headers', "GET")
    /\ UNCHANGED <<entry, options, verbose, result, mdResult, raised>>
    /\ UNCHANGED appVars

\* getMetadata resumes with a field response: store, next field or return
MdFieldDone ==
    /\ pc = "md_field"
    /\ Awaited(Last(net))
    /\ LET md == storeField(metadata, fields[fieldIdx], Last(net))
       IN  IF moreFields(fieldIdx)
           THEN /\ metadata' = md
                /\ fieldIdx' = fieldIdx + 1
                /\ Send(net, log, FieldPath(fields[fieldIdx + 1]), headers, "GET")
                /\ UNCHANGED <<pc, entry, options, verbose, headers, result, mdResult,
                               raised>>
                /\ UNCHANGED appVars
           ELSE /\ metadata' = md
                /\ AfterGetMetadata(getMetadataReturn(md))

(***************************************************************************)
(* Specification: the module used through detectEC2 and getMetadata.       *)
(***************************************************************************)
NoFlags == [json |-> FALSE, verbose |-> FALSE, help |-> FALSE, setEnv |-> FALSE]

\* no call made yet
Idle ==
    /\ pc = "idle"
    /\ entry = "none"
    /\ options = EmptyObject
    /\ verbose = FALSE
    /\ net = <<>>
    /\ headers = EmptyObject
    /\ metadata = EmptyObject
    /\ fieldIdx = 0
    /\ result = NoResult
    /\ mdResult = NoResult
    /\ raised = FALSE
    /\ log = <<>>

Init ==
    /\ Idle
    /\ flags = NoFlags
    /\ exitCode = 0
    /\ envOptions = EmptyObject
    /\ env = EmptyObject
    /\ written = <<>>
    /\ exports = ""

Next ==
    \/ \E opts \in Options : detectEC2(opts)
    \/ getMetadata
    \/ V2TokenDone
    \/ V2GetDone
    \/ V1GetDone
    \/ MdTokenDone
    \/ MdFieldDone
    \/ \E i \in DOMAIN net : Response(i)
    \/ \E i \in DOMAIN net : Data(i)
    \/ \E i \in DOMAIN net : End(i)
    \/ \E i \in DOMAIN net : Error(i)
    \/ \E i \in DOMAIN net : Timeout(i)
    \/ \E i \in DOMAIN net : Close(i)

Spec == Init /\ [][Next]_vars

(***************************************************************************)
(* Fairness.  The event loop runs the continuation of a settled promise    *)
(* (DetectorStep); the HTTP client keeps delivering events on a request    *)
(* that is in flight, the 'timeout' event at the latest (HttpEvent).       *)
(* Nothing obliges a caller to call.                                       *)
(***************************************************************************)
DetectorStep ==
    V2TokenDone \/ V2GetDone \/ V1GetDone \/ MdTokenDone \/ MdFieldDone

HttpEvent ==
    \E i \in DOMAIN net :
        Response(i) \/ Data(i) \/ End(i) \/ Error(i) \/ Timeout(i) \/ Close(i)

FairSpec == Spec /\ WF_vars(DetectorStep) /\ WF_vars(HttpEvent)

(***************************************************************************)
(* bin/cli.js: the command line tool.  The flags are parsed, --help exits  *)
(* at once, otherwise main() awaits detectEC2 and exits with a code that   *)
(* depends on the result.  When the promise main() awaits can no longer be *)
(* settled and nothing else is pending, the event loop is empty and the    *)
(* process ends on its own, with process.exitCode unset, that is 0.        *)
(***************************************************************************)
FlagSets == [json : BOOLEAN, verbose : BOOLEAN, help : BOOLEAN, setEnv : BOOLEAN]

\* main(): the options passed to detectEC2
cliOptions(f) == ("verbose" :> (f.verbose \/ f.setEnv))

\* main(): process.exit(result.isEC2 ? 0 : 1), and process.exit(1) in catch
cliExitCode(err, res) == IF err THEN 1 ELSE IF res.isEC2 THEN 0 ELSE 1

\* `export ${name}="${value}"`
exportLine(name, value) == "export " \o name \o "=\"" \o value \o "\""

\* generateExports: the names table
exportName(prefix, key) ==
    CASE key = "isEC2" -> prefix \o "IS_EC2"
      [] key = "imdsVersion" -> prefix \o "IMDS_VERSION"
      [] key = "instanceId" -> prefix \o "INSTANCE_ID"
      [] key = "instanceType" -> prefix \o "INSTANCE_TYPE"
      [] key = "amiId" -> prefix \o "AMI_ID"
      [] key = "localIpv4" -> prefix \o "LOCAL_IPV4"
      [] key = "publicIpv4" -> prefix \o "PUBLIC_IPV4"

\* if (result.metadata['<field>']) exports.push(...)
metadataExport(res, prefix, key, field) ==
    IF /\ field \in DOMAIN res.metadata.entries
       /\ Truthy(res.metadata.entries[field])
    THEN << exportLine(exportName(prefix, key), res.metadata.entries[field]) >>
    ELSE <<>>

\* generateExports: the array `exports`
exportLines(res, prefix) ==
    << exportLine(exportName(prefix, "isEC2"), IF res.isEC2 THEN "true" ELSE "false") >>
    \o (IF res.isEC2
        THEN << exportLine(exportName(prefix, "imdsVersion"), res.imdsVersion) >>
             \o (IF HasMetadataObject(res)
                 THEN metadataExport(res, prefix, "instanceId", "instance-id")
                      \o metadataExport(res, prefix, "instanceType", "instance-type")
                      \o metadataExport(res, prefix, "amiId", "ami-id")
                      \o metadataExport(res, prefix, "localIpv4", "local-ipv4")
                      \o metadataExport(res, prefix, "publicIpv4", "public-ipv4")
                 ELSE <<>>)
        ELSE <<>>)

\* Array.prototype.join
RECURSIVE join(_, _)
join(lines, sep) ==
    IF lines = <<>> THEN ""
    ELSE IF Len(lines) = 1 THEN lines[1]
    ELSE lines[1] \o sep \o join(Tail(lines), sep)

\* generateExports(result, prefix)
generateExports(res, prefix) == join(exportLines(res, prefix), "\n")

\* if (options.help) { console.log(...); process.exit(0) }
CliHelp ==
    /\ pc = "idle"
    /\ flags.help
    /\ pc' = "exited"
    /\ exitCode' = 0
    /\ UNCHANGED <<entry, options, verbose, net, headers, metadata, fieldIdx,
                   result, mdResult, raised, log, flags, envOptions, env, written,
                   exports>>

\* main() called: up to the await of detectEC2
CliMain ==
    /\ pc = "idle"
    /\ ~flags.help
    /\ entry' = "cli"
    /\ enterDetectEC2(cliOptions(flags))
    /\ UNCHANGED appVars

\* main() resumes with the result (or the error) of detectEC2; of what it
\* prints, the export lines of --set-env are kept (options.prefix is 'EC2_')
CliExit ==
    /\ entry = "cli"
    /\ pc = "done"
    /\ pc' = "exited"
    /\ exports' = IF ~flags.setEnv THEN ""
                  ELSE IF raised THEN exportLine("EC2_IS_EC2", "false")
                  ELSE generateExports(result, "EC2_")
    /\ exitCode' = cliExitCode(raised, result)
    /\ UNCHANGED <<entry, options, verbose, net, headers, metadata, fieldIdx,
                   result, mdResult, raised, log, flags, envOptions, env,
                   written>>

\* nothing left to wait for while main() is still suspended
CliDrain ==
    /\ entry = "cli"
    /\ pc \notin {"idle", "done", "exited", "drained"}
    /\ \A i \in DOMAIN net : net[i].state = "closed"
    /\ pc' = "drained"
    /\ exitCode' = 0
    /\ UNCHANGED <<entry, options, verbose, net, headers, metadata, fieldIdx,
                   result, mdResult, raised, log, flags, envOptions, env, written,
                   exports>>

CliInit ==
    /\ Idle
    /\ flags \in FlagSets
    /\ exitCode = 0
    /\ envOptions = EmptyObject
    /\ env = EmptyObject
    /\ written = <<>>
    /\ exports = ""

CliNext ==
    \/ CliHelp
    \/ CliMain
    \/ CliExit
    \/ CliDrain
    \/ V2TokenDone
    \/ V2GetDone
    \/ V1GetDone
    \/ MdTokenDone
    \/ MdFieldDone
    \/ \E i \in DOMAIN net : Response(i)
    \/ \E i \in DOMAIN net : Data(i)
    \/ \E i \in DOMAIN net : End(i)
    \/ \E i \in DOMAIN net : Error(i)
    \/ \E i \in DOMAIN net : Timeout(i)
    \/ \E i \in DOMAIN net : Close(i)

SpecCLI == CliInit /\ [][CliNext]_vars

(***************************************************************************)
(* setEnv: detectEC2, then the assignments to process.env, in one step     *)
(* (there is no await after the one of detectEC2).                         *)
(***************************************************************************)
EnvKeys == <<"isEC2", "imdsVersion", "instanceId", "instanceType", "amiId",
             "localIpv4", "publicIpv4">>
MetadataKeys == <<"instanceId", "instanceType", "amiId", "localIpv4", "publicIpv4">>

EnvSuffix(key) ==
    CASE key = "isEC2" -> "IS_EC2"
      [] key = "imdsVersion" -> "IMDS_VERSION"
      [] key = "instanceId" -> "INSTANCE_ID"
      [] key = "instanceType" -> "INSTANCE_TYPE"
      [] key = "amiId" -> "AMI_ID"
      [] key = "localIpv4" -> "LOCAL_IPV4"
      [] key = "publicIpv4" -> "PUBLIC_IPV4"

EnvField(key) ==
    CASE key = "instanceId" -> "instance-id"
      [] key = "instanceType" -> "instance-type"
      [] key = "amiId" -> "ami-id"
      [] key = "localIpv4" -> "local-ipv4"
      [] key = "publicIpv4" -> "public-ipv4"

\* the destructuring with defaults of setEnv's options
optPrefix(o) == IF "prefix" \in DOMAIN o THEN o["prefix"] ELSE "EC2_"
optEnvNames(o) == IF "envNames" \in DOMAIN o THEN o["envNames"] ELSE EmptyObject
optIncludeMetadata(o) ==
    IF "includeMetadata" \in DOMAIN o THEN o["includeMetadata"] ELSE TRUE

\* names: envNames.<key> || `${prefix}<SUFFIX>`
envName(o, key) ==
    IF key \in DOMAIN optEnvNames(o) /\ Truthy(optEnvNames(o)[key])
    THEN optEnvNames(o)[key]
    ELSE optPrefix(o) \o EnvSuffix(key)

\* a variant that assigns every field the metadata object has, empty or not
metadataAssignmentAny(o, res, key) ==
    IF EnvField(key) \in DOMAIN res.metadata.entries
    THEN << <<envName(o, key), res.metadata.entries[EnvField(key)]>> >>
    ELSE <<>>

\* if (result.metadata['<field>']) process.env[names.<key>] = ...
metadataAssignment(o, res, key) ==
    IF /\ EnvField(key) \in DOMAIN res.metadata.entries
       /\ Truthy(res.metadata.entries[EnvField(key)])
    THEN << <<envName(o, key), res.metadata.entries[EnvField(key)]>> >>
    ELSE <<>>

\* the assignments setEnv makes for a result, <<name, value>>, in order
setEnvAssignments(o, res) ==
    << <<envName(o, "isEC2"), IF res.isEC2 THEN "true" ELSE "false">> >>
    \o (IF res.isEC2
        THEN << <<envName(o, "imdsVersion"), res.imdsVersion>> >>
             \o (IF HasMetadataObject(res)
                 THEN metadataAssignment(o, res, MetadataKeys[1])
                      \o metadataAssignment(o, res, MetadataKeys[2])
                      \o metadataAssignment(o, res, MetadataKeys[3])
                      \o metadataAssignment(o, res, MetadataKeys[4])
                      \o metadataAssignment(o, res, MetadataKeys[5])
                 ELSE <<>>)
        ELSE <<>>)

\* process.env[name] = value, one assignment after the other
RECURSIVE Assign(_, _)
Assign(e, as) ==
    IF as = <<>> THEN e
    ELSE LET name == as[1][1]
             e1 == [n \in DOMAIN e \cup {name} |-> IF n = name THEN as[1][2] ELSE e[n]]
         IN  Assign(e1, Tail(as))

\* the options objects passed to setEnv
SetEnvOptions ==
    { EmptyObject,
      ("prefix" :> "AWS_") @@
          ("envNames" :> (("isEC2" :> "ON_EC2") @@ ("instanceId" :> "MY_ID"))),
      ("envNames" :> ("imdsVersion" :> "EC2_IS_EC2")),
      ("includeMetadata" :> FALSE) }

\* the result of an earlier detection, on an instance
EarlierResult ==
    [isEC2 |-> TRUE, imdsVersion |-> "v2",
     metadata |-> Obj(("instance-id" :> "old"))]

\* the environment as two earlier setEnv calls on an instance left it: one
\* with the default names, one with prefix AWS_ and two names overridden
StaleEnv ==
    Assign(Assign(("PATH" :> "/bin"),
                  setEnvAssignments(EmptyObject, EarlierResult)),
           setEnvAssignments(("prefix" :> "AWS_") @@
               ("envNames" :> (("isEC2" :> "ON_EC2") @@ ("instanceId" :> "MY_ID"))),
               EarlierResult))

\* setEnv(options) called: up to the await of detectEC2
SetEnvCall(o) ==
    /\ pc = "idle"
    /\ entry' = "setEnv"
    /\ envOptions' = o
    /\ enterDetectEC2(("verbose" :> optIncludeMetadata(o)))
    /\ UNCHANGED <<flags, exitCode, env, written, exports>>

\* a variant that starts from an environment without the earlier variables
SetEnvDoneCleaning ==
    /\ entry = "setEnv"
    /\ pc = "done"
    /\ pc' = "returned"
    /\ written' = IF raised THEN <<>> ELSE setEnvAssignments(envOptions, result)
    /\ env' = Assign(("PATH" :> env["PATH"]), written')
    /\ UNCHANGED <<entry, options, verbose, net, headers, metadata, fieldIdx,
                   result, mdResult, raised, log, flags, exitCode, envOptions,
                   exports>>

\* setEnv resumes with the result of detectEC2, assigns, returns the result
SetEnvDone ==
    /\ entry = "setEnv"
    /\ pc = "done"
    /\ pc' = "returned"
    /\ written' = IF raised THEN <<>> ELSE setEnvAssignments(envOptions, result)
    /\ env' = Assign(env, written')
    /\ UNCHANGED <<entry, options, verbose, net, headers, metadata, fieldIdx,
                   result, mdResult, raised, log, flags, exitCode, envOptions,
                   exports>>

EnvInit ==
    /\ Idle
    /\ flags = NoFlags
    /\ exitCode = 0
    /\ envOptions = EmptyObject
    /\ env = StaleEnv
    /\ written = <<>>
    /\ exports = ""

EnvNext ==
    \/ \E o \in SetEnvOptions : SetEnvCall(o)
    \/ SetEnvDone
    \/ V2TokenDone
    \/ V2GetDone
    \/ V1GetDone
    \/ MdTokenDone
    \/ MdFieldDone
    \/ \E i \in DOMAIN net : Response(i)
    \/ \E i \in DOMAIN net : Data(i)
    \/ \E i \in DOMAIN net : End(i)
    \/ \E i \in DOMAIN net : Error(i)
    \/ \E i \in DOMAIN net : Timeout(i)
    \/ \E i \in DOMAIN net : Close(i)

SpecEnv == EnvInit /\ [][EnvNext]_vars

(***************************************************************************)
(* generateExports and the assignments of setEnv, applied to one result    *)
(* and one prefix (no envNames), in either order.                          *)
(***************************************************************************)
ExportFields == {"instance-id", "public-ipv4"}
\* bodies a server at the metadata address can send: nothing, an id, markup
ExportValues == {"", "i-0a", "<a href=\"x\">"}
MetadataObjects == UNION {[F -> ExportValues] : F \in SUBSET ExportFields \ {{}}}

\* the results detectEC2 can return
DetectionResults ==
    {resultNotEC2, resultV1, resultV2}
    \cup {setMetadata(res, m) : res \in {resultV1, resultV2},
                                m \in {Null} \cup {Obj(x) : x \in MetadataObjects}}

PrefixOptions == {EmptyObject, ("prefix" :> "EC2_"), ("prefix" :> "AWS_")}

GenerateExports ==
    /\ entry = "pure"
    /\ pc \in {"idle", "assigned"}
    /\ pc' = IF pc = "idle" THEN "generated" ELSE "both"
    /\ exports' = generateExports(result, optPrefix(envOptions))
    /\ UNCHANGED <<entry, options, verbose, net, headers, metadata, fieldIdx,
                   result, mdResult, raised, log, flags, exitCode, envOptions,
                   env, written>>

AssignEnv ==
    /\ entry = "pure"
    /\ pc \in {"idle", "generated"}
    /\ pc' = IF pc = "idle" THEN "assigned" ELSE "both"
    /\ written' = setEnvAssignments(envOptions, result)
    /\ env' = Assign(env, written')
    /\ UNCHANGED <<entry, options, verbose, net, headers, metadata, fieldIdx,
                   result, mdResult, raised, log, flags, exitCode, envOptions,
                   exports>>

ExportsInit ==
    /\ pc = "idle"
    /\ entry = "pure"
    /\ options = EmptyObject
    /\ verbose = FALSE
    /\ net = <<>>
    /\ headers = EmptyObject
    /\ metadata = EmptyObject
    /\ fieldIdx = 0
    /\ result \in DetectionResults
    /\ mdResult = NoResult
    /\ raised = FALSE
    /\ log = <<>>
    /\ flags = NoFlags
    /\ exitCode = 0
    /\ envOptions \in PrefixOptions
    /\ env = EmptyObject
    /\ written = <<>>
    /\ exports = ""

ExportsNext == GenerateExports \/ AssignEnv

SpecExports == ExportsInit /\ [][ExportsNext]_vars

(***************************************************************************)
(* Reading the history of the running call.                                *)
(***************************************************************************)
Returned == pc = "done" /\ ~raised
DetectReturned == entry = "detectEC2" /\ Returned
HasKey(obj, k) == k \in DOMAIN obj

\* the token PUT of the negotiation is the first request of a detectEC2 call
TokenGranted ==
    /\ Len(log) >= 1
    /\ log[1].method = "PUT" /\ log[1].path = TokenPath
    /\ log[1].outcome = "200" /\ log[1].body # ""

\* the GET of the listing that carries the granted token
TokenedGet(i) ==
    /\ i \in DOMAIN log
    /\ log[i].method = "GET" /\ log[i].path = RootPath
    /\ log[i].headers = TokenHeaders(log[1].body)

\* the GET of the listing without any header
PlainGet(i) ==
    /\ i \in DOMAIN log
    /\ log[i].method = "GET" /\ log[i].path = RootPath
    /\ log[i].headers = EmptyObject

V2ProbeSucceeded == TokenGranted /\ TokenedGet(2) /\ log[2].outcome = "200"

\* the IMDSv2 path failed at one of its steps
V2ProbeFailed ==
    /\ Len(log) >= 1
    /\ log[1].method = "PUT" /\ log[1].path = TokenPath
    /\ \/ log[1].outcome = "failed"
       \/ log[1].outcome = "200" /\ log[1].body = ""
       \/ TokenGranted /\ TokenedGet(2) /\ log[2].outcome = "failed"

V1ProbeSucceeded == \E i \in DOMAIN log : PlainGet(i) /\ log[i].outcome = "200"
V1ProbeFailed == \E i \in DOMAIN log : PlainGet(i) /\ log[i].outcome = "failed"

FieldNames == {"instance-id", "instance-type", "ami-id", "local-ipv4", "public-ipv4"}
MetadataPaths == {RootPath \o f : f \in FieldNames}

\* the requests of metadata collection: the field GETs, and every token PUT
\* after the first request of a detectEC2 call
FieldGets == {i \in DOMAIN log : log[i].path \in MetadataPaths}
TokenPuts == {i \in DOMAIN log : log[i].path = TokenPath}

\* S: the fields whose GET returned status 200, and what the service wrote
Served == {f \in FieldNames :
             \E i \in DOMAIN log : log[i].path = RootPath \o f /\ log[i].outcome = "200"}
ServedBody(f) ==
    LET i == CHOOSE j \in DOMAIN log :
                 log[j].path = RootPath \o f /\ log[j].outcome = "200"
    IN  log[i].body

(***************************************************************************)
(* C1: when the token PUT returned 200 with a non-empty body and the GET   *)
(* of the listing carrying that token returned 200, detectEC2 returns      *)
(* isEC2 = true and imdsVersion = "v2".                                    *)
(***************************************************************************)
C1_V2Result ==
    (entry = "detectEC2" /\ pc = "done" /\ V2ProbeSucceeded) =>
        /\ ~raised
        /\ HasKey(result, "isEC2") /\ result.isEC2 = TRUE
        /\ HasKey(result, "imdsVersion") /\ result.imdsVersion = "v2"

C1_Witness ==
    /\ DetectReturned /\ V2ProbeSucceeded
    /\ HasKey(result, "imdsVersion") /\ result.imdsVersion = "v2"
    /\ ~verbose

(***************************************************************************)
(* C2: when the IMDSv2 path failed at any of its steps and the plain GET   *)
(* of the listing returned 200, detectEC2 returns isEC2 = true and         *)
(* imdsVersion = "v1".                                                     *)
(***************************************************************************)
C2_V1Result ==
    (entry = "detectEC2" /\ pc = "done" /\ V2ProbeFailed /\ V1ProbeSucceeded) =>
        /\ ~raised
        /\ HasKey(result, "isEC2") /\ result.isEC2 = TRUE
        /\ HasKey(result, "imdsVersion") /\ result.imdsVersion = "v1"

\* the token was granted, the tokened GET failed, the plain GET answered 200
C2_Witness ==
    /\ DetectReturned /\ V1ProbeSucceeded
    /\ TokenGranted /\ TokenedGet(2) /\ log[2].outcome = "failed"
    /\ HasKey(result, "imdsVersion") /\ result.imdsVersion = "v1"

(***************************************************************************)
(* C3: when both probes failed, verbose or not, detectEC2 returns exactly  *)
(* {isEC2: false}, and no request of metadata collection was issued.       *)
(***************************************************************************)
C3_NotEC2Result ==
    (entry = "detectEC2" /\ pc = "done" /\ V2ProbeFailed /\ V1ProbeFailed) =>
        /\ ~raised
        /\ DOMAIN result = {"isEC2"}
        /\ result.isEC2 = FALSE
        /\ FieldGets = {}
        /\ TokenPuts = {1}

C3_Witness ==
    /\ DetectReturned /\ V2ProbeFailed /\ V1ProbeFailed
    /\ verbose
    /\ result = [isEC2 |-> FALSE]

(***************************************************************************)
(* C4: whatever the outcome of each request (a response with any status    *)
(* and body, an error, a timeout), detectEC2 and getMetadata never raise:  *)
(* every settled request is taken up by the detector, and a completed call *)
(* has returned a value (a result with isEC2, or a metadata object/null).  *)
(***************************************************************************)
C4_NeverRaises ==
    /\ ~raised
    /\ (pc \notin {"idle", "done"} /\ Settled(Last(net))) => ENABLED DetectorStep
    /\ (pc = "done" /\ entry = "detectEC2") =>
           HasKey(result, "isEC2") /\ result.isEC2 \in BOOLEAN
    /\ (pc = "done" /\ entry = "getMetadata") =>
           mdResult.type \in {"null", "object"}

\* the token PUT and the plain GET both failed, and detectEC2 returned a value
C4_Witness ==
    /\ DetectReturned /\ V1ProbeFailed
    /\ result = [isEC2 |-> FALSE]
    /\ log[1].outcome = "failed"

(***************************************************************************)
(* C5: a verbose detectEC2 call that found EC2 and in which a non-empty    *)
(* set S of the five fields returned status 200 returns a metadata object  *)
(* whose keys are exactly S, each with the body the service wrote.         *)
(***************************************************************************)
C5_MetadataExactlyServed ==
    (DetectReturned /\ verbose /\ HasKey(result, "isEC2") /\ result.isEC2
        /\ Served # {}) =>
        /\ HasKey(result, "metadata")
        /\ result.metadata.type = "object"
        /\ DOMAIN result.metadata.entries = Served
        /\ \A f \in Served : result.metadata.entries[f] = ServedBody(f)

\* a proper, non-empty subset was served, one body empty and one of two chunks
C5_Witness ==
    /\ DetectReturned /\ verbose
    /\ Served = {"instance-id", "local-ipv4"}
    /\ ServedBody("instance-id") = "aa"
    /\ ServedBody("local-ipv4") = ""
    /\ HasKey(result, "metadata")
    /\ result.metadata = Obj([f \in Served |-> ServedBody(f)])

(***************************************************************************)
(* C6: a verbose detectEC2 call that found EC2 and in which none of the    *)
(* five fields returned status 200 returns a result without metadata key.  *)
(***************************************************************************)
C6_NoMetadataKey ==
    (DetectReturned /\ verbose /\ HasKey(result, "isEC2") /\ result.isEC2
        /\ Served = {}) =>
        ~HasKey(result, "metadata")

(***************************************************************************)
(* C7: a detectEC2 call issues at most 7 requests.                         *)
(***************************************************************************)
C7_AtMostSeven == entry = "detectEC2" => Len(log) <= 7

(***************************************************************************)
(* C7, amended: a detectEC2 call issues at most 9 requests (3 for the      *)
(* negotiation, 1 token PUT and 5 field GETs for metadata collection), and *)
(* at most 3 when verbose is off.                                          *)
(***************************************************************************)
C7_AtMostNine ==
    entry = "detectEC2" =>
        /\ Len(log) <= 9
        /\ ~verbose => Len(log) <= 3

C7_Witness ==
    /\ DetectReturned /\ verbose
    /\ Len(log) = 9

(***************************************************************************)
(* C8: within a call at most one request is in flight, and a request is    *)
(* issued only after every earlier request of the call has settled.        *)
(***************************************************************************)
C8_OneInFlight ==
    /\ Cardinality({i \in DOMAIN net : InFlight(net[i])}) <= 1
    /\ \A i \in DOMAIN log : i < Len(log) => log[i].outcome \in {"200", "failed"}

\* the fifth field request is in flight, the eight before it have settled
C8_Witness ==
    /\ Len(log) = 9
    /\ Len(net) = 1 /\ net[1].state = "responding"

(***************************************************************************)
(* C9: every request eventually settles (its promise is resolved or        *)
(* rejected) under every sequence of events of the HTTP client, and so     *)
(* every call eventually returns.                                          *)
(***************************************************************************)
C9_EveryRequestSettles ==
    /\ (\E i \in DOMAIN net : InFlight(net[i])) ~> (\A i \in DOMAIN net : Settled(net[i]))
    /\ (pc \notin {"idle", "done"}) ~> (pc = "done")

(***************************************************************************)
(* C10: a detectEC2 call with verbose false or omitted collects no         *)
(* metadata: no second token PUT, no field GET, no metadata key.           *)
(***************************************************************************)
C10_NoCollectionUnlessVerbose ==
    (entry = "detectEC2" /\ (~HasKey(options, "verbose") \/ options["verbose"] = FALSE)) =>
        /\ FieldGets = {}
        /\ TokenPuts \subseteq {1}
        /\ pc = "done" => ~HasKey(result, "metadata")

C10_Witness ==
    /\ DetectReturned /\ ~HasKey(options, "verbose")
    /\ V2ProbeFailed /\ V1ProbeSucceeded
    /\ result = [isEC2 |-> TRUE, imdsVersion |-> "v1"]

(***************************************************************************)
(* C11: whatever the flags, the command line tool exits with code 0 only   *)
(* when detection reported isEC2 = true, and with code 1 when detection    *)
(* reported isEC2 = false or raised an error.                              *)
(***************************************************************************)
ProcessEnded == pc \in {"exited", "drained"}
DetectionReturned == pc = "exited" /\ entry = "cli" /\ ~raised /\ HasKey(result, "isEC2")
DetectionRaised == pc = "exited" /\ entry = "cli" /\ raised

C11_ExitCodeTellsEC2 ==
    ProcessEnded =>
        /\ exitCode = 0 => (DetectionReturned /\ result.isEC2)
        /\ (DetectionRaised \/ (DetectionReturned /\ ~result.isEC2)) => exitCode = 1

(***************************************************************************)
(* C12: after every setEnv call the IS_EC2 variable holds "true" when the  *)
(* returned result has isEC2 = true and "false" otherwise; the call writes *)
(* the IMDS_VERSION variable and the metadata variables only if isEC2 is   *)
(* true, and a metadata variable only if its field is present and not      *)
(* empty.                                                                  *)
(***************************************************************************)
SetEnvReturned == entry = "setEnv" /\ pc = "returned" /\ ~raised
WrittenNames == {written[k][1] : k \in DOMAIN written}
MetadataKeySet == {MetadataKeys[k] : k \in DOMAIN MetadataKeys}
EnvKeySet == {EnvKeys[k] : k \in DOMAIN EnvKeys}

SetEnvPostcondition ==
    /\ envName(envOptions, "isEC2") \in DOMAIN env
    /\ env[envName(envOptions, "isEC2")] = (IF result.isEC2 THEN "true" ELSE "false")
    /\ envName(envOptions, "imdsVersion") \in WrittenNames => result.isEC2
    /\ \A key \in MetadataKeySet :
          envName(envOptions, key) \in WrittenNames =>
              /\ result.isEC2
              /\ HasKey(result, "metadata") /\ result.metadata.type = "object"
              /\ EnvField(key) \in DOMAIN result.metadata.entries
              /\ result.metadata.entries[EnvField(key)] # ""

C12_SetEnvWrites == SetEnvReturned => SetEnvPostcondition

(***************************************************************************)
(* C12, amended: the same, for a call whose seven variable names (prefixed *)
(* or overridden) are pairwise distinct.                                   *)
(***************************************************************************)
NamesDistinct ==
    \A k1, k2 \in EnvKeySet :
        envName(envOptions, k1) = envName(envOptions, k2) => k1 = k2

C12_SetEnvWritesDistinctNames ==
    (SetEnvReturned /\ NamesDistinct) => SetEnvPostcondition

\* overridden and prefixed names; one field empty, so not written
C12_Witness ==
    /\ SetEnvReturned /\ NamesDistinct
    /\ "prefix" \in DOMAIN envOptions
    /\ HasKey(result, "metadata") /\ result.metadata.type = "object"
    /\ DOMAIN result.metadata.entries = {"instance-id", "ami-id"}
    /\ result.metadata.entries["ami-id"] = ""
    /\ WrittenNames = {"ON_EC2", "AWS_IMDS_VERSION", "MY_ID"}
    /\ env["MY_ID"] = "aa" /\ env["EC2_INSTANCE_ID"] = "old"

(***************************************************************************)
(* C13: in every result of detectEC2, imdsVersion is present iff isEC2 is  *)
(* true; it is "v2" exactly when the IMDSv2 probe succeeded and "v1"       *)
(* exactly when the IMDSv2 probe failed and the IMDSv1 probe succeeded;    *)
(* a metadata key is present only when isEC2 is true.                      *)
(***************************************************************************)
HasVersion(v) == HasKey(result, "imdsVersion") /\ result.imdsVersion = v

C13_VersionTellsProtocol ==
    DetectReturned =>
        /\ HasKey(result, "imdsVersion") <=> result.isEC2
        /\ HasKey(result, "imdsVersion") => result.imdsVersion \in {"v1", "v2"}
        /\ HasVersion("v2") <=> V2ProbeSucceeded
        /\ HasVersion("v1") <=> (V2ProbeFailed /\ V1ProbeSucceeded)
        /\ HasKey(result, "metadata") => result.isEC2

\* IMDSv2 refused the token, IMDSv1 answered, metadata was collected
C13_Witness ==
    /\ DetectReturned /\ HasVersion("v1") /\ HasKey(result, "metadata")
    /\ ~TokenGranted

(***************************************************************************)
(* C14: the untokened GET of /latest/meta-data/ is issued only after the   *)
(* IMDSv2 probe has completed and failed; in a detectEC2 call whose IMDSv2 *)
(* probe succeeded no untokened GET of that path is ever issued.           *)
(***************************************************************************)
Completed(i) == log[i].outcome \in {"200", "failed"}

C14_V1OnlyAfterV2Failed ==
    entry = "detectEC2" =>
        /\ \A i \in DOMAIN log :
              PlainGet(i) => /\ V2ProbeFailed
                             /\ \A j \in 1..(i - 1) : Completed(j)
        /\ V2ProbeSucceeded => \A i \in DOMAIN log : ~PlainGet(i)

\* the token was granted, the tokened GET failed, then the plain GET went out
C14_Witness ==
    entry = "detectEC2" /\ TokenGranted /\ TokenedGet(2) /\ PlainGet(3)

(***************************************************************************)
(* C15: in the IMDSv2 probe the GET of /latest/meta-data/ with a token     *)
(* header is issued only after the token PUT returned 200 with a non-empty *)
(* body, and the header value is that body; when the PUT fails or returns  *)
(* an empty body no such GET is issued and the probe reports failure (the  *)
(* IMDSv1 probe follows, the result is never "v2").                        *)
(***************************************************************************)
TokenHeaderName == "X-aws-ec2-metadata-token"
RootGetWithToken(i) ==
    /\ log[i].method = "GET" /\ log[i].path = RootPath
    /\ TokenHeaderName \in DOMAIN log[i].headers
TokenRefused ==
    /\ Len(log) >= 1
    /\ \/ log[1].outcome = "failed"
       \/ log[1].outcome = "200" /\ log[1].body = ""

C15_TokenedGetNeedsToken ==
    entry = "detectEC2" =>
        /\ \A i \in DOMAIN log :
              RootGetWithToken(i) =>
                  /\ i = 2
                  /\ log[1].method = "PUT" /\ log[1].path = TokenPath
                  /\ log[1].outcome = "200" /\ log[1].body # ""
                  /\ log[i].headers = (TokenHeaderName :> log[1].body)
        /\ TokenRefused =>
              /\ \A i \in DOMAIN log : ~RootGetWithToken(i)
              /\ Len(log) >= 2 => PlainGet(2)
              /\ Returned => ~HasVersion("v2")

\* a two-chunk token on its way in the header of the GET
C15_Witness ==
    /\ entry = "detectEC2" /\ Len(log) >= 2 /\ RootGetWithToken(2)
    /\ log[1].body = "aa" /\ log[2].headers[TokenHeaderName] = "aa"

(***************************************************************************)
(* C16: in getMetadata a failed token PUT (error, timeout or a status      *)
(* other than 200) does not abort collection: the field GETs follow, all   *)
(* five by the time getMetadata returns, without a token header.  When the *)
(* PUT returned 200 with a non-empty body, every field GET carries that    *)
(* body as its token header.                                               *)
(***************************************************************************)
\* the token PUT of metadata collection: the first request of a direct
\* getMetadata call, the PUT after the probes otherwise
MdTokenPuts == {i \in TokenPuts : entry = "getMetadata" \/ i > 1}
GetMetadataReturned == pc = "done" /\ MdTokenPuts # {}

C16_TokenFailureKeepsCollecting ==
    \A p \in MdTokenPuts :
        /\ log[p].outcome = "failed" =>
              /\ pc = "md_token" => ENABLED MdTokenDone
              /\ pc # "md_token" => FieldGets # {}
              /\ \A i \in FieldGets : log[i].headers = EmptyObject
              /\ pc = "done" => ~raised /\ Cardinality(FieldGets) = 5
        /\ (log[p].outcome = "200" /\ log[p].body # "") =>
              /\ \A i \in FieldGets :
                    log[i].headers = (TokenHeaderName :> log[p].body)
              /\ pc = "done" => Cardinality(FieldGets) = 5

\* the PUT was answered 404 with a body, and five plain GETs went out
C16_Witness ==
    /\ GetMetadataReturned
    /\ \E p \in MdTokenPuts : log[p].outcome = "failed"
    /\ Cardinality(FieldGets) = 5
    /\ \E i \in FieldGets : log[i].outcome = "200"

(***************************************************************************)
(* C17: in every getMetadata run the five fields are requested once each,  *)
(* in the order instance-id, instance-type, ami-id, local-ipv4,            *)
(* public-ipv4, whatever the earlier field requests gave; a failed field   *)
(* only omits its own key: the step that handles it changes neither the    *)
(* entries collected so far nor the isEC2 / imdsVersion already decided.   *)
(***************************************************************************)
FieldOrder == <<"instance-id", "instance-type", "ami-id", "local-ipv4", "public-ipv4">>

FieldsInOrder ==
    \A p \in MdTokenPuts :
        /\ \A i \in DOMAIN log :
              i > p => /\ i - p <= 5
                       /\ log[i].method = "GET"
                       /\ log[i].path = RootPath \o FieldOrder[i - p]
        /\ pc = "md_field" =>
              /\ Len(log) = p + fieldIdx
              /\ Completed(Len(log)) => ENABLED MdFieldDone
        /\ pc = "done" => Len(log) = p + 5

FieldStepKeepsTheRest ==
    pc = "md_field" =>
        /\ \A f \in DOMAIN metadata :
              f \in DOMAIN metadata' /\ metadata'[f] = metadata[f]
        /\ DOMAIN metadata' \subseteq DOMAIN metadata \cup {FieldOrder[fieldIdx]}
        /\ log[Len(log)].outcome = "failed" => metadata' = metadata
        /\ HasKey(result, "isEC2") =>
              /\ HasKey(result', "isEC2") /\ result'.isEC2 = result.isEC2
              /\ result'.imdsVersion = result.imdsVersion

C17_FieldsOnceInOrder == []FieldsInOrder /\ [][FieldStepKeepsTheRest]_vars

\* the second field failed, the first is kept, the third is being asked
C17_Witness ==
    /\ pc = "md_field" /\ fieldIdx = 3 /\ entry = "detectEC2"
    /\ \E p \in MdTokenPuts : log[p + 2].outcome = "failed"
    /\ metadata = ("instance-id" :> "a")

(***************************************************************************)
(* C18: in a verbose detectEC2 call whose IMDSv2 probe succeeded the token *)
(* PUT is issued a second time when metadata collection starts, and the    *)
(* field GETs carry the token of that second PUT, or no token if it        *)
(* failed, never the token of the negotiation.                             *)
(***************************************************************************)
SecondTokenGranted == log[3].outcome = "200" /\ log[3].body # ""

C18_FieldsUseSecondToken ==
    (entry = "detectEC2" /\ verbose /\ V2ProbeSucceeded /\ pc # "v2_get") =>
        /\ Len(log) >= 3
        /\ log[3].method = "PUT" /\ log[3].path = TokenPath
        /\ log[3].headers = TtlHeaders
        /\ TokenPuts = {1, 3}
        /\ \A i \in FieldGets :
              /\ i > 3
              /\ log[i].headers = IF SecondTokenGranted
                                  THEN (TokenHeaderName :> log[3].body)
                                  ELSE EmptyObject

\* two different tokens: the field GET carries the second
C18_Witness ==
    /\ entry = "detectEC2" /\ verbose /\ V2ProbeSucceeded
    /\ Len(log) >= 4
    /\ log[1].body = "a" /\ log[3].body = "aa"
    /\ log[4].headers = (TokenHeaderName :> "aa")

(***************************************************************************)
(* C19: a request that failed because of a timeout has been destroyed by   *)
(* the time its failure reaches the caller, and is no longer in flight.    *)
(***************************************************************************)
TimedOut(r) == r.cause = "timeout"

C19_TimedOutIsDestroyed ==
    \A i \in DOMAIN net :
        TimedOut(net[i]) => /\ net[i].destroyed
                            /\ Rejected(net[i])
                            /\ ~InFlight(net[i])

\* the timeout fired after the response had started
C19_Witness ==
    \E i \in DOMAIN net :
        TimedOut(net[i]) /\ net[i].status = 200 /\ net[i].body = "a"

(***************************************************************************)
(* C20: detectEC2 is stateless and deterministic in the transport          *)
(* outcomes: the result of a call is a function of its options and of the  *)
(* outcomes of its own requests, whatever calls came before, and a call    *)
(* starts from nothing of the call before (token, result, metadata).       *)
(***************************************************************************)
WantsMetadata == "verbose" \in DOMAIN options /\ options["verbose"]
ExpectedMetadata ==
    IF Served = {} THEN Null ELSE Obj([f \in Served |-> ServedBody(f)])
ExpectedVersion ==
    IF V2ProbeSucceeded THEN "v2" ELSE IF V1ProbeSucceeded THEN "v1" ELSE "none"

\* written from options and log alone
ExpectedResult ==
    IF ExpectedVersion = "none" THEN [isEC2 |-> FALSE]
    ELSE IF WantsMetadata
         THEN [isEC2 |-> TRUE, imdsVersion |-> ExpectedVersion,
               metadata |-> ExpectedMetadata]
         ELSE [isEC2 |-> TRUE, imdsVersion |-> ExpectedVersion]

ResultIsFunctionOfOutcomes == DetectReturned => result = ExpectedResult

CallStartsFresh ==
    (pc \in {"idle", "done"} /\ pc' = "v2_token") =>
        /\ verbose' = ("verbose" \in DOMAIN options' /\ options'["verbose"])
        /\ result' = NoResult /\ mdResult' = NoResult /\ ~raised'
        /\ metadata' = EmptyObject /\ headers' = EmptyObject /\ fieldIdx' = 0
        /\ Len(net') = 1 /\ InFlight(net'[1]) /\ net'[1].body = ""
        /\ log' = << [method |-> "PUT", path |-> TokenPath, headers |-> TtlHeaders,
                      outcome |-> "pending", body |-> ""] >>

C20_Stateless == []ResultIsFunctionOfOutcomes /\ [][CallStartsFresh]_vars

\* a verbose call has returned with metadata and a token was used; the
\* next call, with other options, can start from here
C20_Witness ==
    /\ DetectReturned /\ HasKey(result, "metadata")
    /\ result.metadata.type = "object"
    /\ headers # EmptyObject
    /\ ENABLED detectEC2(EmptyObject)

(***************************************************************************)
(* C21: setEnv only assigns environment variables and never removes one;   *)
(* a setEnv call whose result has isEC2 = false changes only the IS_EC2    *)
(* variable and leaves the IMDS_VERSION variable and the five metadata     *)
(* variables as they were, so that IS_EC2 = "false" can stand next to the  *)
(* variables an earlier call left.                                         *)
(***************************************************************************)
SetEnvReturns == entry = "setEnv" /\ pc = "done" /\ pc' = "returned"
SameInEnv(n) ==
    /\ n \in DOMAIN env <=> n \in DOMAIN env'
    /\ n \in DOMAIN env => env'[n] = env[n]

NeverRemoves == \A n \in DOMAIN env : n \in DOMAIN env'

ChangesOnlyIsEC2 ==
    \A n \in (DOMAIN env \cup DOMAIN env') \ {envName(envOptions, "isEC2")} :
        SameInEnv(n)

LeavesTheOthers ==
    \A key \in EnvKeySet \ {"isEC2"} : SameInEnv(envName(envOptions, key))

NotEC2Frame ==
    (SetEnvReturns /\ ~raised /\ ~result.isEC2) =>
        /\ ChangesOnlyIsEC2
        /\ LeavesTheOthers

C21_OnlyAssigns == [][NeverRemoves /\ NotEC2Frame]_vars

(***************************************************************************)
(* C21, amended: the same, the second part for a call whose seven variable *)
(* names are pairwise distinct.                                            *)
(***************************************************************************)
NotEC2FrameDistinctNames ==
    (SetEnvReturns /\ ~raised /\ ~result.isEC2) =>
        /\ ChangesOnlyIsEC2
        /\ NamesDistinct => LeavesTheOthers

C21_OnlyAssignsDistinctNames ==
    [][NeverRemoves /\ NotEC2FrameDistinctNames]_vars

\* not detected now, with what the earlier call on an instance had written
C21_Witness ==
    /\ SetEnvReturned /\ ~result.isEC2 /\ NamesDistinct
    /\ envOptions = EmptyObject
    /\ written = << <<"EC2_IS_EC2", "false">> >>
    /\ env["EC2_IS_EC2"] = "false"
    /\ env["EC2_IMDS_VERSION"] = "v2" /\ env["EC2_INSTANCE_ID"] = "old"

(***************************************************************************)
(* C22: for every detection result and every prefix, without envNames, the *)
(* (name, value) pairs that the export lines of generateExports give to    *)
(* the shell that evaluates them are the assignments setEnv makes to       *)
(* process.env for the same result and prefix.                             *)
(***************************************************************************)
Char(str, i) == SubSeq(str, i, i)

RECURSIVE IndexOf(_, _, _)
IndexOf(str, c, from) ==
    IF from > Len(str) THEN 0
    ELSE IF Char(str, from) = c THEN from
    ELSE IndexOf(str, c, from + 1)

RECURSIVE SplitLines(_)
SplitLines(text) ==
    LET nl == IndexOf(text, "\n", 1)
    IN  IF nl = 0 THEN <<text>>
        ELSE <<SubSeq(text, 1, nl - 1)>> \o SplitLines(SubSeq(text, nl + 1, Len(text)))

\* the shell's quote removal: "..." stands for its content, and the parts of
\* a word, quoted or not, are put together
RECURSIVE QuoteRemoval(_)
QuoteRemoval(word) ==
    IF word = "" THEN ""
    ELSE IF Head(word) = "\"" THEN QuoteRemoval(Tail(word))
    ELSE Char(word, 1) \o QuoteRemoval(Tail(word))

\* export NAME=WORD
ReadExportLine(line) ==
    LET word == SubSeq(line, Len("export ") + 1, Len(line))
        eq == IndexOf(word, "=", 1)
    IN  <<SubSeq(word, 1, eq - 1), QuoteRemoval(SubSeq(word, eq + 1, Len(word)))>>

ExportedPairs ==
    LET lines == SplitLines(exports)
    IN  {ReadExportLine(lines[k]) : k \in DOMAIN lines}
AssignedPairs == {written[k] : k \in DOMAIN written}

C22_ExportsEqualAssignments ==
    (entry = "pure" /\ pc = "both") => ExportedPairs = AssignedPairs

====
